---- MODULE Spec2Model ----
(***************************************************************************)
(* The classify-breed edge function (supabase/functions/classify-breed):   *)
(* one request handler that validates a classification request, obtains    *)
(* the image (storage download, else HTTP fetch), calls the remote         *)
(* classifier, normalises its predictions, upserts the animal record and   *)
(* appends a prediction log row.                                           *)
(*                                                                         *)
(* Every handler invocation is a process.  JavaScript runs the code        *)
(* between two awaits without interruption, so an action is the code from  *)
(* the return of one awaited call to the issue of the next one; pc[r]      *)
(* names the call request r is awaiting.  The results of the external      *)
(* calls are chosen when they return.                                      *)
(*                                                                         *)
(* Numbers: a confidence c is held as the integer 1000*c.                  *)
(* Timing (startTime, processingTime, processing_time_ms) is left out: it  *)
(* is read from the clock before the upsert and decides no branch.         *)
(***************************************************************************)
EXTENDS Integers, Sequences, FiniteSets, TLC

\* Handler invocations in one behaviour.
NumRequests == 2
\* Longest predictions list a classifier response carries in SpecNormalize.
MaxPredictions == 4
\* The longest path of an image URL, in segments.
MaxSegments == 4

Requests == 1..NumRequests

(***************************************************************************)
(* JavaScript values                                                       *)
(***************************************************************************)
\* A field the JSON body does not carry.
Undefined == "undefined"

\* !v is false: v is neither undefined nor the empty string.
Truthy(v) == v # Undefined /\ v # ""

\* a || b
OrElse(a, b) == IF Truthy(a) THEN a ELSE b

\* A prediction entry without a confidence field.
NoConfidence == -1

(***************************************************************************)
(* The image URLs of the model, and what String.startsWith and the URL     *)
(* parser make of each.                                                    *)
(***************************************************************************)
StorageUrl == "https://host/storage/v1/object/public/animal-images/abc.jpg"
NestedUrl == "https://host/public//animal-images/herd/abc.jpg"
BucketOnlyUrl == "https://host/storage/v1/object/public/animal-images"
PublicLastUrl == "https://host/files/public/"
PlainUrl == "https://cdn.example.com/cow.jpg"
MalformedHttpUrl == "http//host/public/animal-images/abc.jpg"
FtpUrl == "ftp://host/public/animal-images/abc.jpg"

ImageUrls ==
  {StorageUrl, NestedUrl, BucketOnlyUrl, PublicLastUrl, PlainUrl, MalformedHttpUrl, FtpUrl}

\* parts.join('/')
RECURSIVE Join(_)
Join(parts) ==
  IF parts = <<>> THEN ""
  ELSE IF Len(parts) = 1 THEN parts[1]
  ELSE parts[1] \o "/" \o Join(Tail(parts))

\* The URLs "https://host/" followed by up to MaxSegments path segments, an
\* empty segment standing for two slashes in a row or a slash at the end.
PathSegments == {"", "public", "animal-images", "abc.jpg"}

Paths == UNION {[1..n -> PathSegments] : n \in 1..MaxSegments}

PathUrl(path) == "https://host/" \o Join(path)

PathUrls == {PathUrl(path) : path \in Paths}

\* image_url.startsWith('http')
StartsWithHttp(u) == u \in ImageUrls \ {FtpUrl} \/ u \in PathUrls

\* new URL(image_url) returns (it throws on a string that has no scheme).
UrlParses(u) == u \in ImageUrls \ {MalformedHttpUrl} \/ u \in PathUrls

\* new URL(image_url).pathname.split('/')
PathnameSplit(u) ==
  CASE u = StorageUrl ->
         <<"", "storage", "v1", "object", "public", "animal-images", "abc.jpg">>
    [] u = NestedUrl -> <<"", "public", "", "animal-images", "herd", "abc.jpg">>
    [] u = BucketOnlyUrl -> <<"", "storage", "v1", "object", "public", "animal-images">>
    [] u = PublicLastUrl -> <<"", "files", "public", "">>
    [] u = PlainUrl -> <<"", "cow.jpg">>
    [] u = FtpUrl -> <<"", "public", "animal-images", "abc.jpg">>
    [] OTHER -> <<"">> \o (CHOOSE path \in Paths : PathUrl(path) = u)

\* parts.filter(Boolean)
FilterBoolean(parts) == SelectSeq(parts, LAMBDA p : p # "")

\* Mutant of IndexOf: the index of the last x.
LastIndexOf(parts, x) ==
  IF \E i \in 1..Len(parts) : parts[i] = x
  THEN (CHOOSE i \in 1..Len(parts) :
          parts[i] = x /\ \A j \in (i + 1)..Len(parts) : parts[j] # x) - 1
  ELSE -1

\* parts.indexOf(x): the 0-based index of the first x, or -1.
IndexOf(parts, x) ==
  IF \E i \in 1..Len(parts) : parts[i] = x
  THEN (CHOOSE i \in 1..Len(parts) :
          parts[i] = x /\ \A j \in 1..(i - 1) : parts[j] # x) - 1
  ELSE -1

\* parts[i] for a 0-based i: undefined past the end.
At(parts, i) == IF i >= 0 /\ i < Len(parts) THEN parts[i + 1] ELSE Undefined

\* parts.slice(from) for a 0-based from >= 0.
Slice(parts, from) ==
  IF from >= Len(parts) THEN <<>> ELSE SubSeq(parts, from + 1, Len(parts))

NoLocator == [found |-> FALSE, bucketId |-> "", objectPath |-> ""]

\* Mutant of StorageLocator: the storage path is never tried.
StorageLocatorNever(image_url) == NoLocator

\* Lines 47-52: the bucket and the object path the URL names, if it names any.
StorageLocator(image_url) ==
  IF ~UrlParses(image_url) THEN NoLocator
  ELSE LET parts == FilterBoolean(PathnameSplit(image_url))
           idxPublic == IndexOf(parts, "public")
       IN IF idxPublic >= 0 /\ Truthy(At(parts, idxPublic + 1))
          THEN [found |-> TRUE,
                bucketId |-> At(parts, idxPublic + 1),
                objectPath |-> Join(Slice(parts, idxPublic + 2))]
          ELSE NoLocator

(***************************************************************************)
(* Requests                                                                *)
(***************************************************************************)
NoRequest ==
  [method |-> "", json |-> "none", image_url |-> Undefined, animal_id |-> Undefined,
   user_id |-> Undefined, animal_type |-> Undefined]

\* The CORS preflight request.
OptionsRequest == [NoRequest EXCEPT !.method = "OPTIONS"]

\* A POST whose body req.json() cannot parse, or parses to null.
MalformedRequest == [NoRequest EXCEPT !.method = "POST", !.json = "malformed"]

PostRequests(urls, animals, users, types) ==
  {[method |-> "POST", json |-> "object", image_url |-> u, animal_id |-> a,
    user_id |-> s, animal_type |-> t] :
     u \in urls, a \in animals, s \in users, t \in types}

\* Every request of SpecRequest: each field absent, empty or given.
AllRequests ==
  {OptionsRequest, MalformedRequest}
    \cup PostRequests({Undefined, ""} \cup ImageUrls, {Undefined, "", "A1"},
                      {Undefined, "", "U1"}, {Undefined, "", "cattle"})

\* The requests of Spec, which run concurrently: valid ones, for two pairs
\* that share the animal_id, with the image URL and the animal type telling
\* the requests of the pair (A1, U1) apart.
ConcurrentRequests ==
  {[method |-> "POST", json |-> "object", image_url |-> StorageUrl,
    animal_id |-> "A1", user_id |-> "U1", animal_type |-> "cattle"],
   [method |-> "POST", json |-> "object", image_url |-> PlainUrl,
    animal_id |-> "A1", user_id |-> "U1", animal_type |-> "buffalo"],
   [method |-> "POST", json |-> "object", image_url |-> PlainUrl,
    animal_id |-> "A1", user_id |-> "U2", animal_type |-> "cattle"]}

\* The requests of SpecLocator: valid ones, one for each path.
LocatorRequests == PostRequests(PathUrls, {"A1"}, {"U1"}, {"cattle"})

\* The request of the spec's end-to-end example.
ExampleRequest ==
  [method |-> "POST", json |-> "object", image_url |-> StorageUrl,
   animal_id |-> "A1", user_id |-> "U1", animal_type |-> "dog"]

\* Mutant of MissingField: the check forgets animal_type.
MissingFieldForgetsType(q) ==
  ~Truthy(q.image_url) \/ ~Truthy(q.animal_id) \/ ~Truthy(q.user_id)

\* Line 27
MissingField(q) ==
  ~Truthy(q.image_url) \/ ~Truthy(q.animal_id) \/ ~Truthy(q.user_id)
    \/ ~Truthy(q.animal_type)

\* Mutant of InvalidImageUrl: the prefix of the URL is not looked at.
InvalidImageUrlAnyPrefix(q) == ~Truthy(q.image_url)

\* Line 40
InvalidImageUrl(q) == ~Truthy(q.image_url) \/ ~StartsWithHttp(q.image_url)

(***************************************************************************)
(* Responses                                                               *)
(***************************************************************************)
NoResponse == [status |-> 0]

\* Line 21: a null body, default status.
PreflightResponse == [status |-> 200, body |-> "null"]

\* Lines 28-31
MissingFieldsResponse ==
  [status |-> 400,
   error |-> "Missing required fields: image_url, animal_id, user_id, animal_type"]

\* Mutant of InternalErrorResponse: the message is sent under "message".
InternalErrorResponseAsMessage(message) ==
  [status |-> 500, message |-> "Internal server error", details |-> message]

\* Lines 188-194: the top-level catch.
InternalErrorResponse(message) ==
  [status |-> 500, error |-> "Internal server error", details |-> message]

\* Mutant of RecordErrorResponse: the message of the datastore error is dropped.
RecordErrorResponseNoMessage(message) ==
  [status |-> 500, error |-> "Failed to create animal record",
   details |-> "Unknown error occurred"]

\* Lines 151-154
RecordErrorResponse(message) ==
  [status |-> 500, error |-> "Failed to create animal record", details |-> message]

\* Lines 174-186
SuccessResponse(id, preds, top) ==
  [status |-> 200, success |-> TRUE, animal_record_id |-> id, predictions |-> preds,
   top_prediction |-> [breed |-> top.breed, confidence |-> top.confidence]]

(***************************************************************************)
(* Inference: the classifier's answers and their normalisation             *)
(***************************************************************************)
\* Line 79-80: the fallback.
DefaultPrediction == [breed |-> "unknown", confidence |-> 0]

\* The thousandths c ending in 5 whose double c/1000 is not below c/1000:
\* Number.prototype.toFixed rounds the exact value of the double, and takes
\* the larger of two equally near results.
HalfRoundsUp ==
  {5, 25, 35, 55, 65, 85, 95, 115, 125, 135, 165, 195, 225, 255, 265, 275, 315,
   325, 335, 375, 385, 395, 405, 445, 455, 465, 505, 515, 525, 535, 545, 555,
   625, 635, 645, 655, 665, 675, 685, 755, 765, 775, 785, 795, 805, 875, 885,
   895, 905, 915, 925, 935}

\* parseFloat(c.toFixed(2)), for c in thousandths, 0 <= c <= 1000.
ToFixed2(c) ==
  IF c % 10 > 5 \/ (c % 10 = 5 /\ c \in HalfRoundsUp)
  THEN (c \div 10 + 1) * 10
  ELSE (c \div 10) * 10

\* Lines 113-114: one entry of the returned list.
NormalizePrediction(pred) ==
  [breed |-> OrElse(pred.class, OrElse(pred.predicted_class, "unknown")),
   confidence |-> ToFixed2(IF pred.confidence = NoConfidence THEN 0 ELSE pred.confidence)]

\* Line 110: (a, b) => b.confidence - a.confidence.  A missing confidence
\* makes the difference NaN, which Array.prototype.sort reads as 0.
CompareConfidence(a, b) ==
  IF a.confidence = NoConfidence \/ b.confidence = NoConfidence THEN 0
  ELSE b.confidence - a.confidence

\* The comparator orders the entries consistently: being tied is transitive.
ConsistentComparator(preds) ==
  \A i, j, k \in 1..Len(preds) :
    CompareConfidence(preds[i], preds[j]) = 0 /\ CompareConfidence(preds[j], preds[k]) = 0
      => CompareConfidence(preds[i], preds[k]) = 0

\* x put into a sorted list behind every entry the comparator does not put after it.
RECURSIVE InsertSorted(_, _)
InsertSorted(sorted, x) ==
  IF sorted = <<>> THEN <<x>>
  ELSE IF CompareConfidence(Head(sorted), x) > 0 THEN <<x>> \o sorted
  ELSE <<Head(sorted)>> \o InsertSorted(Tail(sorted), x)

\* The stable sort of preds under the comparator.
RECURSIVE StableSort(_)
StableSort(preds) ==
  IF preds = <<>> THEN <<>>
  ELSE InsertSorted(StableSort(SubSeq(preds, 1, Len(preds) - 1)), preds[Len(preds)])

Orderings(preds) ==
  {[i \in 1..Len(preds) |-> preds[p[i]]] :
     p \in {q \in [1..Len(preds) -> 1..Len(preds)] :
              \A i, j \in 1..Len(preds) : q[i] = q[j] => i = j}}

\* Line 110: what predictions.sort(comparator) can leave.  The sort is stable;
\* under an inconsistent comparator the order is implementation-defined.
SortOutcomes(preds) ==
  IF ConsistentComparator(preds) THEN {StableSort(preds)} ELSE Orderings(preds)

\* Mutant of Slice3: the whole list is kept.
SliceEverything(sorted) == sorted

\* sorted.slice(0, 3)
Slice3(sorted) == SubSeq(sorted, 1, IF Len(sorted) < 3 THEN Len(sorted) ELSE 3)

\* Line 112-115: sortedPredictions.slice(0, 3).map(...)
NormalizePredictions(sorted) ==
  [i \in 1..Len(Slice3(sorted)) |-> NormalizePrediction(Slice3(sorted)[i])]

\* Line 117: predictions[0] || { breed: 'unknown', confidence: 0 }
First(preds) == IF Len(preds) > 0 THEN preds[1] ELSE DefaultPrediction

\* What the inference try block (lines 82-128) ends with.
\*   encode_error    the base64 conversion throws, no POST is made
\*   network_error   fetch rejects
\*   http_error      roboflowResponse.ok is false
\*   malformed_body  roboflowResponse.json() throws
\*   no_predictions  the body has no (or a null) predictions field
\*   json            the body carries the list predictions (it may be empty)
InferenceFailures == {"encode_error", "network_error", "http_error", "malformed_body"}

Inference(kind, preds) == [kind |-> kind, predictions |-> preds]

\* Mutant of HasPredictions: the length of the list is not looked at.
HasPredictionsAnyList(res) == res.kind = "json"

\* Line 108
HasPredictions(res) == res.kind = "json" /\ Len(res.predictions) > 0

\* The classifier entries of the model.
PredictionSamples ==
  {[class |-> "Gir", predicted_class |-> Undefined, confidence |-> 872],
   [class |-> "Sahiwal", predicted_class |-> Undefined, confidence |-> 201],
   [class |-> Undefined, predicted_class |-> "Murrah", confidence |-> 875],
   [class |-> "", predicted_class |-> "", confidence |-> 15],
   [class |-> "Jersey", predicted_class |-> "Kankrej", confidence |-> NoConfidence]}

\* The two predictions of the spec's end-to-end example, lowest confidence first.
ExamplePredictions ==
  <<[class |-> "Beagle", predicted_class |-> Undefined, confidence |-> 201],
    [class |-> "Labrador", predicted_class |-> Undefined, confidence |-> 872]>>

RECURSIVE SeqsUpTo(_, _)
SeqsUpTo(S, n) ==
  IF n = 0 THEN {<<>>}
  ELSE LET shorter == SeqsUpTo(S, n - 1)
       IN shorter \cup {Append(s, x) : s \in {t \in shorter : Len(t) = n - 1}, x \in S}

\* Every classifier outcome of SpecNormalize.
AllInferences ==
  {Inference(k, <<>>) : k \in InferenceFailures \cup {"no_predictions"}}
    \cup {Inference("json", p) : p \in SeqsUpTo(PredictionSamples, MaxPredictions)}

\* The classifier outcomes of Spec: unreachable, or the example's answer.
ConcurrentInferences ==
  {Inference("network_error", <<>>), Inference("json", ExamplePredictions)}

\* The classifier outcomes of SpecRequest.
SampleInferences ==
  {Inference(k, <<>>) : k \in InferenceFailures \cup {"no_predictions", "json"}}
    \cup {Inference("json", ExamplePredictions)}

(***************************************************************************)
(* The datastore                                                           *)
(***************************************************************************)
\* Mutant of AnimalRow: the confidence of the top prediction is not stored.
AnimalRowNoScore(q, top) ==
  [user_id |-> q.user_id, animal_id |-> q.animal_id, animal_type |-> q.animal_type,
   predicted_breed |-> top.breed, confidence_score |-> 0,
   image_url |-> q.image_url, verification_status |-> "pending"]

\* Lines 135-143: the row the handler upserts.
AnimalRow(q, top) ==
  [user_id |-> q.user_id, animal_id |-> q.animal_id, animal_type |-> q.animal_type,
   predicted_breed |-> top.breed, confidence_score |-> top.confidence,
   image_url |-> q.image_url, verification_status |-> "pending"]

\* The rows of table that conflict with row on (animal_id, user_id).
Conflicting(table, row) ==
  {t \in table : t.animal_id = row.animal_id /\ t.user_id = row.user_id}

\* Mutant of Upsert: a plain insert, without the conflict key.
UpsertAlwaysInserts(table, row) ==
  table \cup {("id" :> Cardinality(table) + 1) @@ row}

\* Mutant of Upsert: a conflicting row keeps its verification_status.
UpsertKeepsStatus(table, row) ==
  IF Conflicting(table, row) = {}
  THEN table \cup {("id" :> Cardinality(table) + 1) @@ row}
  ELSE (table \ Conflicting(table, row))
         \cup {("id" :> t.id) @@
                  [row EXCEPT !.verification_status = t.verification_status] :
                 t \in Conflicting(table, row)}

\* Mutant of Upsert: a conflicting row keeps its animal_type.
UpsertKeepsType(table, row) ==
  IF Conflicting(table, row) = {}
  THEN table \cup {("id" :> Cardinality(table) + 1) @@ row}
  ELSE (table \ Conflicting(table, row))
         \cup {("id" :> t.id) @@ [row EXCEPT !.animal_type = t.animal_type] :
                 t \in Conflicting(table, row)}

\* Lines 133-145: upsert(row, {onConflict: 'animal_id,user_id'}).  A conflicting
\* row keeps its id and takes every column of row; otherwise row is added
\* under a fresh id (rows are never deleted, so the next count is fresh).
Upsert(table, row) ==
  IF Conflicting(table, row) = {}
  THEN table \cup {("id" :> Cardinality(table) + 1) @@ row}
  ELSE (table \ Conflicting(table, row))
         \cup {("id" :> t.id) @@ row : t \in Conflicting(table, row)}

\* Lines 146-147: .select().single(), the row just written.
Selected(table, row) == CHOOSE t \in Conflicting(table, row) : TRUE

\* Lines 160-166: the row the handler appends to breed_predictions.
PredictionLogRow(id, q, preds) ==
  [animal_record_id |-> id, image_url |-> q.image_url, predicted_breeds |-> preds,
   model_version |-> "resnet-50-v1.0"]

\* A record another part of the application has verified.
VerifiedRow(id, user) ==
  [id |-> id, user_id |-> user, animal_id |-> "A1", animal_type |-> "buffalo",
   predicted_breed |-> "Murrah", confidence_score |-> 910, image_url |-> PlainUrl,
   verification_status |-> "verified"]

\* The animal_records tables a request of SpecRequest can find.
InitialStores ==
  {{}, {VerifiedRow(1, "U1")}, {VerifiedRow(1, "U2")},
   {VerifiedRow(1, "U2"), VerifiedRow(2, "U1")},
   {VerifiedRow(1, "U1"), VerifiedRow(2, "U2")}}

\* The error messages of the datastore, of fetch and of req.json().
DatastoreErrors == {"permission denied for table", "connection reset"}
HttpErrors == {"404 Not Found"}
NetworkError == "error sending request"
JsonError == "Unexpected end of JSON input"

(***************************************************************************)
(* State                                                                   *)
(***************************************************************************)
VARIABLES
  req,               \* req[r]: the request r carries (NoRequest before it arrives)
  pc,                \* pc[r]: "idle", the call r awaits, or "done"
  locator,           \* locator[r]: bucketId and objectPath (lines 51-52)
  imageBlob,         \* imageBlob[r]: where the blob came from, "null" if there is none
  predictions,       \* predictions[r] (line 79)
  topPrediction,     \* topPrediction[r] (line 80)
  animalRecord,      \* animalRecord[r].id, 0 before the upsert returned a row
  response,          \* response[r]: the Response returned
  animal_records,    \* the table animal_records, a set of rows
  breed_predictions, \* the table breed_predictions, in insertion order
  calls,             \* history: the external calls of r that returned, with results
  inference,         \* history: what the inference try block of r ended with
  precededBy,        \* history: the requests answered before r arrived
  upsertedBy,        \* history: per animal_records id, the request that wrote it last
  loggedBy           \* history: per breed_predictions row, the request that wrote it

vars ==
  <<req, pc, locator, imageBlob, predictions, topPrediction, animalRecord, response,
    animal_records, breed_predictions, calls, inference, precededBy, upsertedBy,
    loggedBy>>

locals == <<locator, imageBlob, predictions, topPrediction, animalRecord>>
store == <<animal_records, breed_predictions, upsertedBy, loggedBy>>

InitLocals ==
  /\ req = [r \in Requests |-> NoRequest]
  /\ pc = [r \in Requests |-> "idle"]
  /\ locator = [r \in Requests |-> NoLocator]
  /\ imageBlob = [r \in Requests |-> "null"]
  /\ predictions = [r \in Requests |-> <<>>]
  /\ topPrediction = [r \in Requests |-> DefaultPrediction]
  /\ animalRecord = [r \in Requests |-> 0]
  /\ response = [r \in Requests |-> NoResponse]
  /\ calls = [r \in Requests |-> <<>>]
  /\ inference = [r \in Requests |-> Inference("none", <<>>)]
  /\ precededBy = [r \in Requests |-> {}]
  /\ breed_predictions = <<>>
  /\ loggedBy = <<>>

\* The state after deployment: no request yet, empty tables.
Init ==
  /\ InitLocals
  /\ animal_records = {}
  /\ upsertedBy = <<>>

\* One request arriving at a datastore that already holds records.
InitRequest ==
  /\ InitLocals
  /\ animal_records \in InitialStores
  /\ upsertedBy = [i \in 1..Cardinality(animal_records) |-> 0]

(***************************************************************************)
(* The handler                                                             *)
(***************************************************************************)
Returned(r, op, result) ==
  calls' = [calls EXCEPT ![r] = Append(@, [op |-> op, result |-> result])]

Respond(r, resp) ==
  /\ response' = [response EXCEPT ![r] = resp]
  /\ pc' = [pc EXCEPT ![r] = "done"]

\* Lines 18-25: a request arrives; a preflight is answered at once, any other
\* request waits for its body.
Receive(r, requests) ==
  /\ pc[r] = "idle"
  /\ \E q \in requests :
       /\ req' = [req EXCEPT ![r] = q]
       /\ IF q.method = "OPTIONS"
          THEN Respond(r, PreflightResponse)
          ELSE /\ pc' = [pc EXCEPT ![r] = "body"]
               /\ UNCHANGED response
  /\ precededBy' = [precededBy EXCEPT ![r] = {s \in Requests : pc[s] = "done"}]
  /\ UNCHANGED <<locals, store, calls, inference>>

\* Mutant of BodyReturn: a body that does not parse is let through to the fetch.
BodyReturnSkipsParseError(r) ==
  /\ pc[r] = "body"
  /\ IF req[r].json = "malformed"
     THEN pc' = [pc EXCEPT ![r] = "fetch"] /\ UNCHANGED <<locator, response>>
     ELSE IF MissingField(req[r])
     THEN Respond(r, MissingFieldsResponse) /\ UNCHANGED locator
     ELSE IF InvalidImageUrl(req[r])
     THEN Respond(r, InternalErrorResponse("Invalid image URL provided"))
            /\ UNCHANGED locator
     ELSE /\ locator' = [locator EXCEPT ![r] = StorageLocator(req[r].image_url)]
          /\ pc' = [pc EXCEPT ![r] = IF locator'[r].found THEN "download" ELSE "fetch"]
          /\ UNCHANGED response
  /\ UNCHANGED <<req, imageBlob, predictions, topPrediction, animalRecord, store, calls,
                 inference, precededBy>>

\* Lines 25-63: req.json() returns; the validation, the URL check and the
\* locator parsing, up to the storage download or the HTTP fetch.
BodyReturn(r) ==
  /\ pc[r] = "body"
  /\ IF req[r].json = "malformed"
     THEN Respond(r, InternalErrorResponse(JsonError)) /\ UNCHANGED locator
     ELSE IF MissingField(req[r])
     THEN Respond(r, MissingFieldsResponse) /\ UNCHANGED locator
     ELSE IF InvalidImageUrl(req[r])
     THEN Respond(r, InternalErrorResponse("Invalid image URL provided"))
            /\ UNCHANGED locator
     ELSE /\ locator' = [locator EXCEPT ![r] = StorageLocator(req[r].image_url)]
          /\ pc' = [pc EXCEPT ![r] = IF locator'[r].found THEN "download" ELSE "fetch"]
          /\ UNCHANGED response
  /\ UNCHANGED <<req, imageBlob, predictions, topPrediction, animalRecord, store, calls,
                 inference, precededBy>>

\* Mutant of DownloadReturn: a storage error is thrown to the top-level catch.
DownloadReturnThrows(r) ==
  /\ pc[r] = "download"
  /\ \/ /\ Returned(r, "download", "ok")
        /\ imageBlob' = [imageBlob EXCEPT ![r] = "storage"]
        /\ pc' = [pc EXCEPT ![r] = "classify"]
        /\ UNCHANGED response
     \/ /\ Returned(r, "download", "error")
        /\ Respond(r, InternalErrorResponse("Object not found"))
        /\ UNCHANGED imageBlob
  /\ UNCHANGED <<req, locator, predictions, topPrediction, animalRecord, store,
                 inference, precededBy>>

\* Lines 54-67: the storage download returns data or an error; after an
\* error the image is fetched over HTTP.
DownloadReturn(r) ==
  /\ pc[r] = "download"
  /\ \E result \in {"ok", "error"} :
       /\ Returned(r, "download", result)
       /\ imageBlob' = [imageBlob EXCEPT ![r] = IF result = "ok" THEN "storage" ELSE @]
       /\ pc' = [pc EXCEPT ![r] = IF imageBlob'[r] = "null" THEN "fetch" ELSE "classify"]
  /\ UNCHANGED <<req, locator, predictions, topPrediction, animalRecord, response, store,
                 inference, precededBy>>

\* Mutant of FetchReturn: a fetch that threw is issued again.
FetchReturnRetries(r) ==
  /\ pc[r] = "fetch"
  /\ \/ /\ Returned(r, "fetch", "ok")
        /\ imageBlob' = [imageBlob EXCEPT ![r] = "http"]
        /\ pc' = [pc EXCEPT ![r] = "classify"]
        /\ UNCHANGED response
     \/ \E status \in HttpErrors :
          /\ Returned(r, "fetch", status)
          /\ Respond(r, InternalErrorResponse("Failed to fetch image: " \o status))
          /\ UNCHANGED imageBlob
     \/ /\ Returned(r, "fetch", NetworkError)
        /\ UNCHANGED <<pc, response, imageBlob>>
  /\ UNCHANGED <<req, locator, predictions, topPrediction, animalRecord, store, inference,
                 precededBy>>

\* Mutant of FetchReturn: imageResponse.ok is not looked at.
FetchReturnIgnoresStatus(r) ==
  /\ pc[r] = "fetch"
  /\ \/ /\ \E result \in {"ok"} \cup HttpErrors : Returned(r, "fetch", result)
        /\ imageBlob' = [imageBlob EXCEPT ![r] = "http"]
        /\ pc' = [pc EXCEPT ![r] = "classify"]
        /\ UNCHANGED response
     \/ /\ Returned(r, "fetch", NetworkError)
        /\ Respond(r, InternalErrorResponse(NetworkError))
        /\ UNCHANGED imageBlob
  /\ UNCHANGED <<req, locator, predictions, topPrediction, animalRecord, store, inference,
                 precededBy>>

\* Lines 67-72: the HTTP fetch of the image returns, or throws.
FetchReturn(r) ==
  /\ pc[r] = "fetch"
  /\ \/ /\ Returned(r, "fetch", "ok")
        /\ imageBlob' = [imageBlob EXCEPT ![r] = "http"]
        /\ pc' = [pc EXCEPT ![r] = "classify"]
        /\ UNCHANGED response
     \/ \E status \in HttpErrors :
          /\ Returned(r, "fetch", status)
          /\ Respond(r, InternalErrorResponse("Failed to fetch image: " \o status))
          /\ UNCHANGED imageBlob
     \/ /\ Returned(r, "fetch", NetworkError)
        /\ Respond(r, InternalErrorResponse(NetworkError))
        /\ UNCHANGED imageBlob
  /\ UNCHANGED <<req, locator, predictions, topPrediction, animalRecord, store, inference,
                 precededBy>>

\* Mutant of ClassifierReturn: a failure of the classifier call reaches the
\* top-level catch.
ClassifierReturnRethrows(r, inferences) ==
  /\ pc[r] = "classify"
  /\ \E res \in inferences :
       /\ inference' = [inference EXCEPT ![r] = res]
       /\ IF res.kind = "encode_error" THEN UNCHANGED calls
          ELSE Returned(r, "classify", res.kind)
       /\ IF HasPredictions(res)
          THEN \E sorted \in SortOutcomes(res.predictions) :
                 /\ predictions' = [predictions EXCEPT ![r] = NormalizePredictions(sorted)]
                 /\ topPrediction' = [topPrediction EXCEPT ![r] = First(predictions'[r])]
          ELSE /\ predictions' = [predictions EXCEPT ![r] = <<DefaultPrediction>>]
               /\ topPrediction' = [topPrediction EXCEPT ![r] = DefaultPrediction]
       /\ IF res.kind \in InferenceFailures
          THEN Respond(r, InternalErrorResponse("Roboflow API error"))
          ELSE pc' = [pc EXCEPT ![r] = "upsert"] /\ UNCHANGED response
  /\ UNCHANGED <<req, locator, imageBlob, animalRecord, store, precededBy>>

\* Lines 79-147: the inference try block ends with res; the predictions are
\* normalised, or the fallback is kept; the upsert is issued.
ClassifierReturn(r, inferences) ==
  /\ pc[r] = "classify"
  /\ \E res \in inferences :
       /\ inference' = [inference EXCEPT ![r] = res]
       /\ IF res.kind = "encode_error" THEN UNCHANGED calls
          ELSE Returned(r, "classify", res.kind)
       /\ IF HasPredictions(res)
          THEN \E sorted \in SortOutcomes(res.predictions) :
                 /\ predictions' = [predictions EXCEPT ![r] = NormalizePredictions(sorted)]
                 /\ topPrediction' = [topPrediction EXCEPT ![r] = First(predictions'[r])]
          ELSE /\ predictions' = [predictions EXCEPT ![r] = <<DefaultPrediction>>]
               /\ topPrediction' = [topPrediction EXCEPT ![r] = DefaultPrediction]
  /\ pc' = [pc EXCEPT ![r] = "upsert"]
  /\ UNCHANGED <<req, locator, imageBlob, animalRecord, response, store, precededBy>>

\* Mutant of UpsertReturn: recordError is not looked at.
UpsertReturnIgnoresError(r) ==
  /\ pc[r] = "upsert"
  /\ \/ \E message \in DatastoreErrors :
          /\ Returned(r, "upsert", message)
          /\ UNCHANGED <<animal_records, upsertedBy, animalRecord>>
     \/ LET row == AnimalRow(req[r], topPrediction[r])
            written == Selected(Upsert(animal_records, row), row)
        IN /\ Returned(r, "upsert", "ok")
           /\ animal_records' = Upsert(animal_records, row)
           /\ animalRecord' = [animalRecord EXCEPT ![r] = written.id]
           /\ upsertedBy' =
                [i \in 1..Cardinality(animal_records') |->
                   IF i = written.id THEN r
                   ELSE IF i \in DOMAIN upsertedBy THEN upsertedBy[i] ELSE 0]
  /\ pc' = [pc EXCEPT ![r] = "insert"]
  /\ UNCHANGED <<req, locator, imageBlob, predictions, topPrediction, breed_predictions,
                 loggedBy, inference, precededBy, response>>

\* Lines 133-166: the upsert returns the written row, or an error that ends
\* the request; after the row, the log insert is issued.
UpsertReturn(r) ==
  /\ pc[r] = "upsert"
  /\ \/ \E message \in DatastoreErrors :
          /\ Returned(r, "upsert", message)
          /\ Respond(r, RecordErrorResponse(message))
          /\ UNCHANGED <<animal_records, upsertedBy, animalRecord>>
     \/ LET row == AnimalRow(req[r], topPrediction[r])
            written == Selected(Upsert(animal_records, row), row)
        IN /\ Returned(r, "upsert", "ok")
           /\ animal_records' = Upsert(animal_records, row)
           /\ animalRecord' = [animalRecord EXCEPT ![r] = written.id]
           /\ upsertedBy' =
                [i \in 1..Cardinality(animal_records') |->
                   IF i = written.id THEN r
                   ELSE IF i \in DOMAIN upsertedBy THEN upsertedBy[i] ELSE 0]
           /\ pc' = [pc EXCEPT ![r] = "insert"]
           /\ UNCHANGED response
  /\ UNCHANGED <<req, locator, imageBlob, predictions, topPrediction, breed_predictions,
                 loggedBy, inference, precededBy>>

\* Mutant of InsertReturn: an error of the log insert ends the request with 500.
InsertReturnFatal(r) ==
  /\ pc[r] = "insert"
  /\ \/ /\ Returned(r, "insert", "ok")
        /\ breed_predictions' =
             Append(breed_predictions,
                    PredictionLogRow(animalRecord[r], req[r], predictions[r]))
        /\ loggedBy' = Append(loggedBy, r)
        /\ Respond(r, SuccessResponse(animalRecord[r], predictions[r], topPrediction[r]))
     \/ \E message \in {"connection reset"} :
          /\ Returned(r, "insert", message)
          /\ Respond(r, InternalErrorResponse(message))
          /\ UNCHANGED <<breed_predictions, loggedBy>>
  /\ UNCHANGED <<req, locals, animal_records, upsertedBy, inference, precededBy>>

\* Lines 158-186: the log insert returns; its error is logged only; the
\* success response is returned.
InsertReturn(r) ==
  /\ pc[r] = "insert"
  /\ \/ /\ Returned(r, "insert", "ok")
        /\ breed_predictions' =
             Append(breed_predictions,
                    PredictionLogRow(animalRecord[r], req[r], predictions[r]))
        /\ loggedBy' = Append(loggedBy, r)
     \/ \E message \in {"connection reset"} :
          /\ Returned(r, "insert", message)
          /\ UNCHANGED <<breed_predictions, loggedBy>>
  /\ Respond(r, SuccessResponse(animalRecord[r], predictions[r], topPrediction[r]))
  /\ UNCHANGED <<req, locals, animal_records, upsertedBy, inference, precededBy>>

\* The handler of request r after its arrival.
Handle(r, inferences) ==
  \/ BodyReturn(r)
  \/ DownloadReturn(r)
  \/ FetchReturn(r)
  \/ ClassifierReturn(r, inferences)
  \/ UpsertReturn(r)
  \/ InsertReturn(r)

\* Concurrent requests against one datastore.
Next ==
  \E r \in Requests : Receive(r, ConcurrentRequests) \/ Handle(r, ConcurrentInferences)

Spec == Init /\ [][Next]_vars

\* One request, of any shape, against a datastore that may hold records.
NextRequest ==
  \E r \in {1} : Receive(r, AllRequests) \/ Handle(r, SampleInferences)

SpecRequest == InitRequest /\ [][NextRequest]_vars

\* Every call the handler awaits returns in the end: its result or an error.
\* A client need not send a request, so Receive is under no fairness.
CallsReturn == WF_vars(\E r \in {1} : Handle(r, SampleInferences))

SpecLive == InitRequest /\ [][NextRequest]_vars /\ CallsReturn

\* One valid request for any path of the image URL.
NextLocator ==
  \E r \in {1} : Receive(r, LocatorRequests) \/ Handle(r, ConcurrentInferences)

SpecLocator == Init /\ [][NextLocator]_vars

\* One valid request, and any classifier response.
NextNormalize ==
  \E r \in {1} : Receive(r, {ExampleRequest}) \/ Handle(r, AllInferences)

SpecNormalize == Init /\ [][NextNormalize]_vars

(***************************************************************************)
(* What the claims speak of                                                *)
(***************************************************************************)
\* A field that is absent or empty.
Blank(v) == v = Undefined \/ v = ""

\* r is a classification request whose body is an object.
Posted(r) == req[r].method = "POST" /\ req[r].json = "object"

\* r passed both validations: four fields, and an http image URL.
Validated(r) ==
  /\ Posted(r)
  /\ ~Blank(req[r].image_url) /\ ~Blank(req[r].animal_id)
  /\ ~Blank(req[r].user_id) /\ ~Blank(req[r].animal_type)
  /\ StartsWithHttp(req[r].image_url)

Done(r) == pc[r] = "done"

\* The positions of the calls op of r that returned.
CallsOf(r, op) == {i \in 1..Len(calls[r]) : calls[r][i].op = op}

\* The call op of r returned result.
CallReturned(r, op, result) ==
  \E i \in CallsOf(r, op) : calls[r][i].result = result

\* The call op of r returned something else than "ok".
CallFailed(r, op) == \E i \in CallsOf(r, op) : calls[r][i].result # "ok"

\* The calls op r has issued: those that returned and the one it awaits.
Issued(r, op) == Cardinality(CallsOf(r, op)) + (IF pc[r] = op THEN 1 ELSE 0)

\* The non-empty segments of the path of a URL.
Segments(u) ==
  IF UrlParses(u) THEN SelectSeq(PathnameSplit(u), LAMBDA p : p # "") ELSE <<>>

\* The URL has a path segment "public" followed by a bucket segment.
LocatorShape(u) ==
  \E i \in 1..(Len(Segments(u)) - 1) : Segments(u)[i] = "public"

\* The datastore is as the one request of SpecRequest found it.
StoreUntouched ==
  /\ breed_predictions = <<>>
  /\ animal_records \in InitialStores
  /\ \A i \in 1..Len(upsertedBy) : upsertedBy[i] = 0

(***************************************************************************)
(* C1: a request with one of image_url, animal_id, user_id, animal_type    *)
(* absent or empty is answered 400 with the message that lists the four    *)
(* required fields, and makes no external call: it never awaits a storage  *)
(* download, an HTTP fetch, the classifier, the upsert or the log insert,  *)
(* and the datastore stays as it was.                                      *)
(***************************************************************************)
C1_MissingFieldIs400 ==
  \A r \in Requests :
    Posted(r)
      /\ (Blank(req[r].image_url) \/ Blank(req[r].animal_id)
            \/ Blank(req[r].user_id) \/ Blank(req[r].animal_type))
    => /\ pc[r] \in {"body", "done"}
       /\ calls[r] = <<>>
       /\ StoreUntouched
       /\ Done(r) =>
            /\ response[r].status = 400
            /\ response[r].error
                 = "Missing required fields: image_url, animal_id, user_id, animal_type"

\* C1 witness: a request that lacks only its animal_type was answered 400.
C1_Witness ==
  \E r \in Requests :
    /\ Posted(r) /\ Done(r)
    /\ req[r].animal_type = Undefined
    /\ ~Blank(req[r].image_url) /\ ~Blank(req[r].animal_id) /\ ~Blank(req[r].user_id)
    /\ response[r].status = 400

(***************************************************************************)
(* C2: for an image_url of the storage-locator shape, every HTTP fetch of  *)
(* the image comes after a storage download; after a successful download   *)
(* no HTTP fetch is made; and the blob handed to the classifier comes from *)
(* exactly one of the two: the download or the fetch that succeeded.       *)
(***************************************************************************)
C2_StorageBeforeFetch ==
  \A r \in Requests :
    Validated(r) /\ LocatorShape(req[r].image_url)
    => /\ Issued(r, "fetch") > 0 => CallsOf(r, "download") # {}
       /\ \A i \in CallsOf(r, "fetch") : \E j \in CallsOf(r, "download") : j < i
       /\ CallReturned(r, "download", "ok") => Issued(r, "fetch") = 0
       /\ pc[r] \in {"classify", "upsert", "insert"} \/ CallsOf(r, "classify") # {}
          => \/ /\ imageBlob[r] = "storage"
                /\ CallReturned(r, "download", "ok")
                /\ ~CallReturned(r, "fetch", "ok")
             \/ /\ imageBlob[r] = "http"
                /\ CallReturned(r, "fetch", "ok")
                /\ ~CallReturned(r, "download", "ok")

\* C2 witness: a storage URL was downloaded, never fetched, and answered 200.
C2_Witness ==
  \E r \in Requests :
    /\ LocatorShape(req[r].image_url) /\ Done(r)
    /\ CallReturned(r, "download", "ok")
    /\ CallsOf(r, "fetch") = {}
    /\ CallsOf(r, "classify") # {}
    /\ response[r].status = 200

(***************************************************************************)
(* C3: a validated request whose image_url has not the storage-locator     *)
(* shape (or cannot be parsed), or whose storage download returned an      *)
(* error, makes exactly one HTTP fetch of the image; and a request whose   *)
(* storage download failed is answered 500 only if its fetch or its upsert *)
(* failed too.                                                             *)
(***************************************************************************)
C3_ExactlyOneFetch ==
  \A r \in Requests :
    Validated(r) /\ pc[r] # "body"
      /\ (~LocatorShape(req[r].image_url) \/ CallFailed(r, "download"))
    => /\ Issued(r, "fetch") = 1
       /\ Done(r) /\ CallFailed(r, "download") /\ response[r].status # 200
          => CallFailed(r, "fetch") \/ CallFailed(r, "upsert")

\* C3 witness: the download failed, the fetch supplied the image, answer 200.
C3_Witness ==
  \E r \in Requests :
    /\ Validated(r) /\ Done(r)
    /\ CallFailed(r, "download")
    /\ CallReturned(r, "fetch", "ok")
    /\ response[r].status = 200

\* The fallback prediction, as the claims write it.
Unknown0 == [breed |-> "unknown", confidence |-> 0]

Min(a, b) == IF a < b THEN a ELSE b

\* The confidence of a classifier entry, 0 when it carries none.
InputConfidence(p) == IF p.confidence = NoConfidence THEN 0 ELSE p.confidence

\* The inference of r is over (its outcome is known).
Inferred(r) == inference[r].kind # "none"

\* The row of animal_records the upsert of r returned.
RecordOf(r) == {t \in animal_records : t.id = animalRecord[r]}

(***************************************************************************)
(* C4: after a classifier response with N >= 1 predictions, the returned   *)
(* list has min(N, 3) entries in descending order of confidence, every     *)
(* confidence has two decimals, the entries are the roundings of min(N, 3) *)
(* input entries that no left-out entry exceeds in confidence, and the top *)
(* prediction is the first entry.                                          *)
(***************************************************************************)
C4_TopThreeDescending ==
  \A r \in Requests :
    Inferred(r) /\ inference[r].kind = "json" /\ Len(inference[r].predictions) >= 1
    => LET input == inference[r].predictions
           out == predictions[r]
       IN /\ Len(out) = Min(Len(input), 3)
          /\ \A i, j \in 1..Len(out) : i < j => out[i].confidence >= out[j].confidence
          /\ \A i \in 1..Len(out) : out[i].confidence % 10 = 0
          /\ \E f \in [1..Len(out) -> 1..Len(input)] :
               /\ \A i, j \in 1..Len(out) : f[i] = f[j] => i = j
               /\ \A i \in 1..Len(out) :
                    /\ out[i].confidence - InputConfidence(input[f[i]]) \in -5..5
                    /\ \A k \in 1..Len(input) :
                         (\A j \in 1..Len(out) : f[j] # k)
                           => InputConfidence(input[k]) <= InputConfidence(input[f[i]])
          /\ topPrediction[r] = out[1]

(***************************************************************************)
(* C5: when the classifier answers with no or an empty predictions list,   *)
(* with a non-success status, with a malformed body, or cannot be reached, *)
(* the prediction list is exactly <<{unknown, 0}>> and the top prediction  *)
(* is that entry: in the handler, in the record and the log row it writes, *)
(* and in its response.                                                    *)
(***************************************************************************)
C5_FallbackPrediction ==
  \A r \in Requests :
    \/ inference[r].kind
         \in {"no_predictions", "http_error", "malformed_body", "network_error"}
    \/ inference[r].kind = "json" /\ inference[r].predictions = <<>>
    => /\ predictions[r] = <<Unknown0>>
       /\ topPrediction[r] = Unknown0
       /\ \A t \in RecordOf(r) : t.predicted_breed = "unknown" /\ t.confidence_score = 0
       /\ CallReturned(r, "insert", "ok")
            => breed_predictions[Len(breed_predictions)].predicted_breeds = <<Unknown0>>
       /\ Done(r) /\ response[r].status = 200
            => /\ response[r].predictions = <<Unknown0>>
               /\ response[r].top_prediction = Unknown0

\* C5 witness: a response without predictions, logged and answered.
C5_Witness ==
  \E r \in Requests :
    /\ Done(r) /\ inference[r].kind = "no_predictions"
    /\ CallReturned(r, "insert", "ok")
    /\ response[r].status = 200

(***************************************************************************)
(* C8: a failure of the classifier call does not fail the request: a       *)
(* validated request that obtained its image goes on to the upsert, and    *)
(* when the upsert succeeds the answer is 200 with success true and top    *)
(* prediction {unknown, 0}, and the record written holds "unknown" and 0.  *)
(***************************************************************************)
C8_InferenceFailureIsNotFatal ==
  \A r \in Requests :
    Validated(r) /\ imageBlob[r] # "null"
      /\ inference[r].kind \in {"network_error", "http_error", "malformed_body"}
    => /\ Issued(r, "upsert") = 1
       /\ CallReturned(r, "upsert", "ok")
            => /\ \E t \in RecordOf(r) :
                    /\ t.animal_id = req[r].animal_id /\ t.user_id = req[r].user_id
                    /\ t.predicted_breed = "unknown" /\ t.confidence_score = 0
               /\ Done(r)
                    => /\ response[r].status = 200
                       /\ response[r].success = TRUE
                       /\ response[r].top_prediction = Unknown0

\* C8 witness: the classifier was unreachable, the record written, answer 200.
C8_Witness ==
  \E r \in Requests :
    /\ Done(r) /\ inference[r].kind = "network_error"
    /\ CallReturned(r, "upsert", "ok")
    /\ response[r].status = 200
    /\ \E t \in RecordOf(r) : t.predicted_breed = "unknown"

(***************************************************************************)
(* C9: when the upsert returns an error, the request ends with a 500 whose *)
(* details is the message of that error, and no log insert is attempted.   *)
(***************************************************************************)
C9_UpsertErrorIs500 ==
  \A r \in Requests :
    \A i \in CallsOf(r, "upsert") :
      calls[r][i].result # "ok"
      => /\ Done(r)
         /\ response[r].status = 500
         /\ response[r].details = calls[r][i].result
         /\ Issued(r, "insert") = 0
         /\ \A k \in 1..Len(loggedBy) : loggedBy[k] # r

\* C9 witness: an upsert of a validated request failed.
C9_Witness ==
  \E r \in Requests :
    /\ Validated(r) /\ Done(r)
    /\ CallReturned(r, "upsert", "permission denied for table")
    /\ response[r].status = 500

(***************************************************************************)
(* C10: when the upsert succeeded and the log insert returns an error, the *)
(* answer is the 200 success payload an accepted insert would have given   *)
(* (success, the id the upsert returned, the predictions and the top       *)
(* prediction), and the record the upsert wrote is still in place.         *)
(***************************************************************************)
C10_InsertErrorIsNotFatal ==
  \A r \in Requests :
    CallReturned(r, "upsert", "ok") /\ CallFailed(r, "insert")
    => /\ Done(r)
       /\ response[r]
            = [status |-> 200, success |-> TRUE, animal_record_id |-> animalRecord[r],
               predictions |-> predictions[r], top_prediction |-> topPrediction[r]]
       /\ \E t \in RecordOf(r) :
            /\ t.animal_id = req[r].animal_id /\ t.user_id = req[r].user_id
            /\ t.predicted_breed = topPrediction[r].breed
            /\ t.confidence_score = topPrediction[r].confidence

\* C10 witness: the log insert failed after a classification was stored.
C10_Witness ==
  \E r \in Requests :
    /\ Done(r) /\ CallFailed(r, "insert")
    /\ inference[r].kind = "json" /\ Len(predictions[r]) = 2
    /\ breed_predictions = <<>>
    /\ response[r].status = 200

\* The records of the pair (animal_id, user_id) of request r.
RecordsOfPair(r) ==
  {t \in animal_records :
     t.animal_id = req[r].animal_id /\ t.user_id = req[r].user_id}

\* The positions of the log rows that reference the record t.
LogRowsOf(t) ==
  {k \in 1..Len(breed_predictions) : breed_predictions[k].animal_record_id = t.id}

\* The position of the log row appended last among rows.
Latest(rows) == CHOOSE k \in rows : \A j \in rows : j <= k

\* r2 is the same request as r1, received after r1 was answered, both are
\* answered 200, and no third request names their pair.
IssuedTwice(r1, r2) ==
  /\ r1 # r2 /\ req[r1] = req[r2] /\ Validated(r1)
  /\ r1 \in precededBy[r2]
  /\ Done(r1) /\ Done(r2)
  /\ response[r1].status = 200 /\ response[r2].status = 200
  /\ \A r3 \in Requests \ {r1, r2} :
       req[r3].animal_id # req[r1].animal_id \/ req[r3].user_id # req[r1].user_id

(***************************************************************************)
(* C6 as claimed: the same valid request issued twice, one after the       *)
(* other, and answered 200 both times, leaves exactly one record of the    *)
(* pair and exactly two log rows that reference it.                        *)
(***************************************************************************)
C6_TwiceLeavesOneRecordTwoLogRows ==
  \A r1, r2 \in Requests :
    IssuedTwice(r1, r2)
    => /\ Cardinality(RecordsOfPair(r1)) = 1
       /\ \A t \in RecordsOfPair(r1) : Cardinality(LogRowsOf(t)) = 2

(***************************************************************************)
(* C6 amended: the same valid request issued twice, one after the other,   *)
(* and answered 200 both times, leaves exactly one record of the pair,     *)
(* holding the values of the second call; when the log insert of both      *)
(* calls was accepted, exactly two log rows reference it, one of each      *)
(* call, and otherwise fewer.                                              *)
(***************************************************************************)
C6_TwiceLeavesOneRecordAndAcceptedRows ==
  \A r1, r2 \in Requests :
    IssuedTwice(r1, r2)
    => /\ Cardinality(RecordsOfPair(r1)) = 1
       /\ animalRecord[r1] = animalRecord[r2]
       /\ \A t \in RecordsOfPair(r1) :
            /\ t.id = animalRecord[r2]
            /\ t.predicted_breed = topPrediction[r2].breed
            /\ t.confidence_score = topPrediction[r2].confidence
            /\ {loggedBy[k] : k \in LogRowsOf(t)}
                 = {r \in {r1, r2} : CallReturned(r, "insert", "ok")}
            /\ Cardinality(LogRowsOf(t))
                 = Cardinality({r \in {r1, r2} : CallReturned(r, "insert", "ok")})

\* C6 witness: the second call overwrote another breed, and both calls logged.
C6_Witness ==
  \E r1, r2 \in Requests :
    /\ IssuedTwice(r1, r2)
    /\ CallReturned(r1, "insert", "ok") /\ CallReturned(r2, "insert", "ok")
    /\ topPrediction[r1] # topPrediction[r2]
    /\ Cardinality(animal_records) = 1
    /\ Len(breed_predictions) = 2

(***************************************************************************)
(* C7 as claimed: in every reachable state, the predicted_breed and the    *)
(* confidence_score of a record equal the breed and the confidence of the  *)
(* first entry of the log row appended last for that record.               *)
(***************************************************************************)
C7_RecordMatchesLatestLogRow ==
  \A t \in animal_records :
    LogRowsOf(t) # {}
    => LET top == breed_predictions[Latest(LogRowsOf(t))].predicted_breeds[1]
       IN t.predicted_breed = top.breed /\ t.confidence_score = top.confidence

(***************************************************************************)
(* C7 amended: whenever the log row appended last for a record was written *)
(* by the request that last upserted the record, the predicted_breed and   *)
(* the confidence_score of the record equal the breed and the confidence   *)
(* of the first entry of that row.  (Between the upsert and the insert of  *)
(* a request, after a failed insert, and when requests of a pair           *)
(* interleave, the record can differ from the latest row.)                 *)
(***************************************************************************)
C7_RecordMatchesLogRowOfLastWriter ==
  \A t \in animal_records :
    LogRowsOf(t) # {} /\ loggedBy[Latest(LogRowsOf(t))] = upsertedBy[t.id]
    => LET top == breed_predictions[Latest(LogRowsOf(t))].predicted_breeds[1]
       IN t.predicted_breed = top.breed /\ t.confidence_score = top.confidence

\* C7 witness: a record classified twice, with another breed the second
\* time, whose last writer also wrote the latest log row.
C7_Witness ==
  \E t \in animal_records :
    /\ Cardinality(LogRowsOf(t)) = 2
    /\ loggedBy[Latest(LogRowsOf(t))] = upsertedBy[t.id]
    /\ \E k \in LogRowsOf(t) :
         breed_predictions[k].predicted_breeds[1].breed # t.predicted_breed
    /\ t.predicted_breed = "Labrador"

\* No row of the datastore was written by r.
WroteNothing(r) ==
  /\ \A i \in 1..Len(upsertedBy) : upsertedBy[i] # r
  /\ \A k \in 1..Len(loggedBy) : loggedBy[k] # r

(***************************************************************************)
(* C11: a request with all four fields given whose image_url does not      *)
(* start with "http" is answered 500, not 400, with an error field, and    *)
(* makes no external call: no storage download, no HTTP fetch, no          *)
(* classifier call, no datastore write.                                    *)
(***************************************************************************)
C11_NonHttpUrlIs500 ==
  \A r \in Requests :
    Posted(r)
      /\ ~Blank(req[r].image_url) /\ ~Blank(req[r].animal_id)
      /\ ~Blank(req[r].user_id) /\ ~Blank(req[r].animal_type)
      /\ ~StartsWithHttp(req[r].image_url)
    => /\ pc[r] \in {"body", "done"}
       /\ calls[r] = <<>>
       /\ StoreUntouched
       /\ Done(r) =>
            /\ response[r].status = 500
            /\ "error" \in DOMAIN response[r]
            /\ response[r].error # ""

\* C11 witness: the ftp URL, with the other three fields given, answered 500.
C11_Witness ==
  \E r \in Requests :
    /\ Posted(r) /\ Done(r)
    /\ req[r].image_url = FtpUrl
    /\ ~Blank(req[r].animal_id) /\ ~Blank(req[r].user_id) /\ ~Blank(req[r].animal_type)
    /\ response[r].status = 500

(***************************************************************************)
(* C12: when the HTTP fetch of the image returns a non-success status, the *)
(* request ends with a 500 whose details carries that status and reason    *)
(* text, and neither the classifier call nor the upsert nor the log insert *)
(* happens in that request.                                                *)
(***************************************************************************)
C12_FetchStatusIs500 ==
  \A r \in Requests :
    \A i \in CallsOf(r, "fetch") :
      calls[r][i].result \in {"404 Not Found"}
      => /\ Done(r)
         /\ response[r].status = 500
         /\ response[r].details = "Failed to fetch image: 404 Not Found"
         /\ Issued(r, "classify") = 0 /\ ~Inferred(r)
         /\ Issued(r, "upsert") = 0 /\ Issued(r, "insert") = 0
         /\ WroteNothing(r)

\* C12 witness: the fetch that follows a failed download was answered 404.
C12_Witness ==
  \E r \in Requests :
    /\ Done(r)
    /\ CallFailed(r, "download")
    /\ CallReturned(r, "fetch", "404 Not Found")
    /\ response[r].status = 500

\* The record t holds what request r upserted, and nothing else.
WrittenBy(t, r) ==
  /\ CallReturned(r, "upsert", "ok")
  /\ t.id = animalRecord[r]
  /\ t.animal_id = req[r].animal_id /\ t.user_id = req[r].user_id
  /\ t.animal_type = req[r].animal_type
  /\ t.image_url = req[r].image_url
  /\ t.predicted_breed = topPrediction[r].breed
  /\ t.confidence_score = topPrediction[r].confidence

\* The log is only appended to: the rows it held are still there, unchanged.
LogOnlyAppended ==
  /\ Len(breed_predictions') >= Len(breed_predictions)
  /\ SubSeq(breed_predictions', 1, Len(breed_predictions)) = breed_predictions

(***************************************************************************)
(* C13: in every interleaving of concurrent requests, with an atomic       *)
(* upsert, there is at most one AnimalRecord for a pair (animal_id,        *)
(* user_id), its animal_type, predicted_breed, confidence_score and        *)
(* image_url all come from one single request, and the rows of the         *)
(* prediction log are only appended, never changed or removed.             *)
(***************************************************************************)
C13_OneRecordFromOneRequest ==
  /\ [](\A t1, t2 \in animal_records :
          t1.animal_id = t2.animal_id /\ t1.user_id = t2.user_id => t1 = t2)
  /\ [](\A t \in animal_records : \E r \in Requests : WrittenBy(t, r))
  /\ [][LogOnlyAppended]_vars

\* C13 witness: two different requests for one pair are both between their
\* upsert and their log insert, and the pair has one record.
C13_Witness ==
  \E r1, r2 \in Requests :
    /\ r1 # r2 /\ req[r1] # req[r2]
    /\ req[r1].animal_id = req[r2].animal_id /\ req[r1].user_id = req[r2].user_id
    /\ pc[r1] = "insert" /\ pc[r2] = "insert"
    /\ topPrediction[r1] # topPrediction[r2]
    /\ Cardinality(animal_records) = 1

\* What r has answered so far is a well-formed answer.
AnsweredWell(r) ==
  /\ ~Done(r) => response[r] = NoResponse
  /\ Done(r) =>
       /\ response[r].status \in {200, 400, 500}
       /\ response[r].status \in {400, 500} =>
            "error" \in DOMAIN response[r] /\ response[r].error # ""
       /\ response[r].status = 200 /\ req[r].method = "POST" =>
            "success" \in DOMAIN response[r] /\ response[r].success = TRUE
  /\ req[r].method = "OPTIONS" =>
       /\ Done(r)
       /\ response[r] = [status |-> 200, body |-> "null"]
       /\ calls[r] = <<>>
       /\ StoreUntouched

\* An answer, once given, is the only one.
AnsweredOnce ==
  \A r \in Requests : Done(r) => pc'[r] = "done" /\ response'[r] = response[r]

(***************************************************************************)
(* C14: if every external call returns in the end, every request is        *)
(* answered in the end, exactly once, with status 200, 400 or 500; every   *)
(* 400 and 500 answer carries an error string; an OPTIONS request is       *)
(* answered with an empty body, with no external call and no datastore     *)
(* write.                                                                  *)
(***************************************************************************)
C14_EveryRequestAnswered ==
  /\ \A r \in Requests : (pc[r] # "idle") ~> Done(r)
  /\ [](\A r \in Requests : AnsweredWell(r))
  /\ [][AnsweredOnce]_vars

\* C14 witness: a request whose calls all returned an error is answered 500,
\* after a failed download and a failed fetch.
C14_Witness ==
  \E r \in Requests :
    /\ Done(r)
    /\ Len(calls[r]) = 2
    /\ \A i \in 1..2 : calls[r][i].result # "ok"
    /\ response[r].status = 500
    /\ response[r].error = "Internal server error"

\* The call op of r has returned without an error.
CallSucceeded(r, op) ==
  \E i \in 1..Len(calls[r]) : calls[r][i] = [op |-> op, result |-> "ok"]

\* The requests whose upsert returned a row.
Upserted == {r \in Requests : CallSucceeded(r, "upsert")}

\* r issues the call op in this step.
Issues(r, op) == pc[r] # op /\ pc'[r] = op

\* The last call of r that has returned, after this step.
LastReturned(r) == calls'[r][Len(calls'[r])]

\* A call r issues in this step comes after the stage before it.
StepInOrder(r) ==
  /\ Issues(r, "classify") =>
       /\ pc[r] \in {"download", "fetch"}
       /\ imageBlob'[r] # "null"
       /\ LastReturned(r) \in {[op |-> "download", result |-> "ok"],
                               [op |-> "fetch", result |-> "ok"]}
  /\ Issues(r, "upsert") =>
       /\ pc[r] = "classify"
       /\ inference'[r].kind # "none"
  /\ Issues(r, "insert") =>
       /\ pc[r] = "upsert"
       /\ LastReturned(r) = [op |-> "upsert", result |-> "ok"]
       /\ \E t \in animal_records' : t.id = animalRecord'[r]

\* Every row of the log refers to the record its writer's upsert returned.
LogRefersToUpsert ==
  \A k \in 1..Len(breed_predictions) :
    /\ CallSucceeded(loggedBy[k], "upsert")
    /\ breed_predictions[k].animal_record_id = animalRecord[loggedBy[k]]

(***************************************************************************)
(* C15: the stages of a request come in order.  The classifier is called   *)
(* only after the image bytes were obtained, the upsert is attempted only  *)
(* after the classifier call has finished, the log insert is attempted     *)
(* only after a successful upsert of the same request and refers to the id *)
(* that upsert returned; so the log never has more rows than there were    *)
(* successful upserts.                                                     *)
(***************************************************************************)
C15_StagesInOrder ==
  /\ [][\A r \in Requests : StepInOrder(r)]_vars
  /\ [](LogRefersToUpsert /\ Len(breed_predictions) <= Cardinality(Upserted))

\* C15 witness: a request went through all five calls, and its log row
\* refers to the record its upsert returned.
C15_Witness ==
  \E r \in Requests :
    /\ Done(r)
    /\ [i \in 1..Len(calls[r]) |-> calls[r][i].op] =
         <<"download", "fetch", "classify", "upsert", "insert">>
    /\ \E k \in 1..Len(breed_predictions) :
         /\ loggedBy[k] = r
         /\ breed_predictions[k].animal_record_id = animalRecord[r]
         /\ animalRecord[r] > 0

\* The external calls of the handler.
ExternalCalls == {"download", "fetch", "classify", "upsert", "insert"}

(***************************************************************************)
(* C16: there are no retries.  Within one request each external call (the  *)
(* storage download, the HTTP fetch, the classifier POST, the upsert, the  *)
(* log insert) is attempted at most once, whatever it returned.            *)
(***************************************************************************)
C16_NoRetries ==
  \A r \in Requests : \A op \in ExternalCalls : Issued(r, op) <= 1

\* C16 witness: the download failed and the fetch threw, each tried once,
\* and the request has ended.
C16_Witness ==
  \E r \in Requests :
    /\ Done(r)
    /\ calls[r] = <<[op |-> "download", result |-> "error"],
                    [op |-> "fetch", result |-> "error sending request"]>>

\* The record the upsert of r leaves, column by column.
UpsertedRecord(r) ==
  [id |-> animalRecord[r],
   user_id |-> req[r].user_id, animal_id |-> req[r].animal_id,
   animal_type |-> req[r].animal_type,
   predicted_breed |-> topPrediction[r].breed,
   confidence_score |-> topPrediction[r].confidence,
   image_url |-> req[r].image_url,
   verification_status |-> "pending"]

(***************************************************************************)
(* C17: after a successful upsert by a request, the record of its pair     *)
(* (animal_id, user_id) has verification_status "pending" and exactly that *)
(* request's animal_type, predicted_breed, confidence_score and image_url, *)
(* whatever the record held before, a verified status included.            *)
(***************************************************************************)
C17_UpsertOverwritesRecord ==
  \A r \in Requests :
    CallReturned(r, "upsert", "ok") =>
      {t \in animal_records :
         t.animal_id = req[r].animal_id /\ t.user_id = req[r].user_id}
        = {UpsertedRecord(r)}

\* C17 witness: the record with id 1 beside the verified record 2 of another
\* user was there before the request, verified, and is now pending with the
\* request's breed.
C17_Witness ==
  \E r \in Requests :
    /\ CallReturned(r, "upsert", "ok")
    /\ animalRecord[r] = 1
    /\ VerifiedRow(2, "U2") \in animal_records
    /\ \E t \in animal_records :
         /\ t.id = 1 /\ t.user_id = "U1"
         /\ t.verification_status = "pending"
         /\ t.predicted_breed # "Murrah"

\* The segments of s from the k-th on, with a slash between two of them.
RECURSIVE SlashJoined(_, _)
SlashJoined(s, k) ==
  IF k > Len(s) THEN ""
  ELSE IF k = Len(s) THEN s[k]
  ELSE s[k] \o "/" \o SlashJoined(s, k + 1)

\* The positions of the first segment "public" of s: one position, or none.
FirstPublic(s) ==
  {i \in 1..Len(s) : s[i] = "public" /\ \A j \in 1..(i - 1) : s[j] # "public"}

(***************************************************************************)
(* C18: the path of image_url is split into its non-empty segments.  If a  *)
(* segment "public" exists and a segment follows its first occurrence, a   *)
(* storage download is attempted, with the following segment as the bucket *)
(* and all later segments joined with "/" (possibly none) as the object    *)
(* path.  If there is no segment "public", or the first one is the last    *)
(* segment, no download is attempted.                                      *)
(***************************************************************************)
C18_LocatorParsing ==
  \A r \in Requests :
    Validated(r) /\ pc[r] \notin {"idle", "body"} =>
      LET s == Segments(req[r].image_url)
      IN IF \E i \in FirstPublic(s) : i < Len(s)
         THEN /\ Issued(r, "download") = 1
              /\ \A i \in FirstPublic(s) :
                   /\ locator[r].bucketId = s[i + 1]
                   /\ locator[r].objectPath = SlashJoined(s, i + 2)
         ELSE Issued(r, "download") = 0

\* C18 witness: a path with two segments "public", where the first decides:
\* the bucket is named "public", and the object follows it.
C18_Witness ==
  \E r \in Requests :
    /\ req[r].image_url = "https://host/public//public/abc.jpg"
    /\ CallsOf(r, "download") # {}
    /\ locator[r].bucketId = "public"
    /\ locator[r].objectPath = "abc.jpg"

\* r was answered with the success payload.
Succeeded(r) ==
  Done(r) /\ response[r].status = 200 /\ "success" \in DOMAIN response[r]

(***************************************************************************)
(* C19: in every 200 success response, predictions has between one and     *)
(* three entries and top_prediction is its first entry; the predicted_breed*)
(* and confidence_score written by that request's upsert equal             *)
(* top_prediction, the predicted_breeds of its log entry equal             *)
(* predictions, and animal_record_id is the id of the record the upsert    *)
(* returned.                                                               *)
(***************************************************************************)
C19_SuccessResponseConsistent ==
  \A r \in Requests :
    Succeeded(r) =>
      LET out == response[r]
      IN /\ Len(out.predictions) \in 1..3
         /\ out.top_prediction.breed = out.predictions[1].breed
         /\ out.top_prediction.confidence = out.predictions[1].confidence
         /\ \E t \in animal_records :
              /\ t.id = out.animal_record_id
              /\ upsertedBy[t.id] = r
              /\ t.predicted_breed = out.top_prediction.breed
              /\ t.confidence_score = out.top_prediction.confidence
         /\ CallReturned(r, "insert", "ok") => \E k \in 1..Len(loggedBy) : loggedBy[k] = r
         /\ \A k \in 1..Len(loggedBy) :
              loggedBy[k] = r =>
                /\ breed_predictions[k].predicted_breeds = out.predictions
                /\ breed_predictions[k].animal_record_id = out.animal_record_id

\* C19 witness: the classifier returned more than three predictions, three of
\* them are in the success response and in the log entry.
C19_Witness ==
  \E r \in Requests :
    /\ Succeeded(r)
    /\ Len(inference[r].predictions) > 3
    /\ Len(response[r].predictions) = 3
    /\ \E k \in 1..Len(loggedBy) :
         loggedBy[k] = r /\ breed_predictions[k].predicted_breeds = response[r].predictions

(***************************************************************************)
(* C20: a request whose body cannot be parsed is rejected early, with an   *)
(* error response that has an error field, before any storage download,    *)
(* HTTP fetch, classifier call or datastore write.                         *)
(***************************************************************************)
C20_UnparsedBodyRejected ==
  \A r \in Requests :
    req[r].method = "POST" /\ req[r].json = "malformed" =>
      /\ pc[r] \in {"body", "done"}
      /\ \A op \in {"download", "fetch", "classify", "upsert", "insert"} :
           Issued(r, op) = 0
      /\ ~Inferred(r)
      /\ StoreUntouched
      /\ Done(r) =>
           /\ response[r].status >= 400
           /\ "error" \in DOMAIN response[r]
           /\ response[r].error # ""

\* C20 witness: the request with the unparsable body has been answered, and
\* the answer names the parse error.
C20_Witness ==
  \E r \in Requests :
    /\ req[r].json = "malformed"
    /\ Done(r)
    /\ response[r].details = "Unexpected end of JSON input"

====
